---- MODULE Spec2Model ----
(***************************************************************************)
(* Model of offlineimap/folder/LocalStatusSQLite.py: the SQLite backend of  *)
(* the local status cache.  The state is the store file (its tables and     *)
(* rows), the in-memory messagelist of one LocalStatusSQLiteFolder, and the *)
(* position of every thread inside the method it is running.                *)
(*                                                                          *)
(* Strings are sequences of codepoints; a flag list is a sequence of        *)
(* one-character strings.  Every connection of get_cursor() is in           *)
(* autocommit mode (isolation_level=None): a statement that succeeds is     *)
(* durable at once, and the rollback of "with conn:" has nothing to undo.   *)
(***************************************************************************)
EXTENDS Integers, Sequences, FiniteSets, TLC

\* ---------------------------------------------------------------- bounds
MaxCalls == 3
MaxFaults == 2
MaxOpens == 3
MaxFlags == 3

\* ---------------------------------------------------------------- inputs
Threads == {1, 2}
MainThread == CHOOSE t \in Threads : \A u \in Threads : t <= u

\* the strings "F" and "S"
FlagF == <<70>>
FlagS == <<83>>
FlagT == <<84>>
FlagSyms == {FlagF, FlagS, FlagT}
\* every list of at most MaxFlags one-character flags
AllFlagLists == UNION {[1..n -> FlagSyms] : n \in 0..MaxFlags}
FlagLists == { <<FlagF>>, <<FlagS, FlagF>>, <<FlagF, FlagF>> }

UIDs == {-1, 1, 2}
UidLists == { <<1>>, <<2>>, <<1, 2>>, <<1, 1>> }
UidListsNoDup == { <<1>>, <<2>>, <<1, 2>> }

NoLocals == [uid |-> 0, flags |-> <<>>, sflags |-> <<>>, uidlist |-> <<>>, i |-> 0]

VARIABLES
    dbfile,       \* "missing", "corrupt" (not a database) or "database"
    tables,       \* names of the tables that exist in the store
    metadata,     \* rows of table metadata: [key, value]
    status,       \* rows of table status: [id, flags]
    messagelist,  \* self.messagelist: records [uid, flags]
    pc,           \* per thread: the statement it is about to run
    locals,       \* per thread: uid, flags, encoded flags, uidlist and loop index
    op,           \* per thread: the method last called
    result,       \* per thread: "none", "ok" or the exception raised
    retval,       \* per thread: value returned by the last completed call
    pre,          \* per thread: messagelist and status when the call began
    warned,       \* per thread: ui.warn calls of its current construction
    sawError,     \* per thread: the version SELECT of __init__ raised
    sqliteImported, \* the module-level import of the sqlite bindings worked
    ncalls,       \* calls started so far
    faults,       \* storage failures raised by the engine so far
    opens         \* constructions started so far

vars == <<dbfile, tables, metadata, status, messagelist, pc, locals, op,
          result, retval, pre, warned, sawError, sqliteImported, ncalls,
          faults, opens>>

storevars == <<dbfile, tables, metadata, status>>
openvars == <<warned, sawError, sqliteImported, opens>>

\* ------------------------------------------------------------ flag codec
RECURSIVE StrLeq(_, _)
StrLeq(a, b) ==
    IF a = <<>> THEN TRUE
    ELSE IF b = <<>> THEN FALSE
    ELSE IF a[1] < b[1] THEN TRUE
    ELSE IF a[1] > b[1] THEN FALSE
    ELSE StrLeq(Tail(a), Tail(b))

RECURSIVE InsertSorted(_, _)
InsertSorted(x, s) ==
    IF s = <<>> THEN <<x>>
    ELSE IF StrLeq(s[1], x) THEN <<s[1]>> \o InsertSorted(x, Tail(s))
    ELSE <<x>> \o s

RECURSIVE SortList(_)
SortList(s) ==
    IF s = <<>> THEN <<>>
    ELSE InsertSorted(s[1], SortList(Tail(s)))

RECURSIVE Join(_)
Join(s) ==
    IF s = <<>> THEN <<>>
    ELSE s[1] \o Join(Tail(s))

\* a split that reads one character too few
Split_short(str) == [i \in 1..(Len(str) - 1) |-> <<str[i]>>]

\* flags = [x for x in row[1]]
Split(str) == [i \in 1..Len(str) |-> <<str[i]>>]

\* ------------------------------------------------------- in-memory cache
CacheUids == {m.uid : m \in messagelist}
uidexists(u) == u \in CacheUids
getmessagecount == Cardinality(messagelist)
CachePut(ml, u, f) == {m \in ml : m.uid # u} \cup {[uid |-> u, flags |-> f]}
CacheDel(ml, u) == {m \in ml : m.uid # u}

\* what cachemessagelist() builds from the rows of the status table
LoadRows(rows) == {[uid |-> r.id, flags |-> Split(r.flags)] : r \in rows}

\* ----------------------------------------------------------------- store
StatusIds == {r.id : r \in status}
SchemaFull ==
    /\ dbfile = "database"
    /\ tables = {"metadata", "status"}
    /\ [key |-> "db_version", value |-> "1"] \in metadata

InitStores == { {}, {[id |-> 1, flags |-> Join(<<FlagF, FlagS>>)]} }

InitCommon ==
    /\ pc = [t \in Threads |-> "idle"]
    /\ locals = [t \in Threads |-> NoLocals]
    /\ op = [t \in Threads |-> "none"]
    /\ result = [t \in Threads |-> "none"]
    /\ retval = [t \in Threads |-> 0]
    /\ warned = [t \in Threads |-> 0]
    /\ sawError = [t \in Threads |-> FALSE]
    /\ ncalls = 0
    /\ faults = 0
    /\ opens = 0

\* a valid store that was opened and loaded with cachemessagelist()
Init ==
    /\ dbfile = "database"
    /\ tables = {"metadata", "status"}
    /\ metadata = {[key |-> "db_version", value |-> "1"]}
    /\ status \in InitStores
    /\ messagelist = LoadRows(status)
    /\ pre = [t \in Threads |-> [messagelist |-> messagelist, status |-> status]]
    /\ sqliteImported = TRUE
    /\ InitCommon

\* --------------------------------------------------------- call / return
Begin(t, name, l, next) ==
    /\ pc[t] = "idle"
    /\ ncalls < MaxCalls
    /\ ncalls' = ncalls + 1
    /\ op' = [op EXCEPT ![t] = name]
    /\ locals' = [locals EXCEPT ![t] = l]
    /\ result' = [result EXCEPT ![t] = "none"]
    /\ retval' = [retval EXCEPT ![t] = 0]
    /\ pre' = [pre EXCEPT ![t] = [messagelist |-> messagelist, status |-> status]]
    /\ pc' = [pc EXCEPT ![t] = next]

Return(t, r, v) ==
    /\ pc' = [pc EXCEPT ![t] = "idle"]
    /\ locals' = [locals EXCEPT ![t] = NoLocals]
    /\ result' = [result EXCEPT ![t] = r]
    /\ retval' = [retval EXCEPT ![t] = v]

Goto(t, next) ==
    /\ pc' = [pc EXCEPT ![t] = next]
    /\ UNCHANGED <<locals, result, retval>>

\* the engine raises an error of its own accord (lock held, disk failure)
Fault == faults < MaxFaults /\ faults' = faults + 1


\* a method of one statement: called and returned in the same step
Complete(t, name, r, v) ==
    /\ pc[t] = "idle"
    /\ ncalls < MaxCalls
    /\ ncalls' = ncalls + 1
    /\ op' = [op EXCEPT ![t] = name]
    /\ result' = [result EXCEPT ![t] = r]
    /\ retval' = [retval EXCEPT ![t] = v]
    /\ pre' = [pre EXCEPT ![t] = [messagelist |-> messagelist, status |-> status]]
    /\ UNCHANGED <<pc, locals>>

ErrLocked == "OperationalError: database is locked"
ErrFatal == "OperationalError: disk I/O error"
ErrIntegrity == "IntegrityError"
ErrKey == "KeyError"
ErrTableExists == "OperationalError: table already exists"
ErrNotADb == "DatabaseError: file is not a database"
Errors == {ErrLocked, ErrFatal, ErrIntegrity, ErrKey, ErrTableExists, ErrNotADb}

\* ----------------------------------------------------------- savemessage
savemessage(t, u, f) ==
    /\ Begin(t, "savemessage", [NoLocals EXCEPT !.uid = u, !.flags = f], "savemessage")
    /\ UNCHANGED <<storevars, messagelist, faults, openvars>>

\* savemessage without the early return: the unassigned uid is cached
savemessage_nouid_cached(t) ==
    /\ pc[t] = "savemessage"
    /\ locals[t].uid < 0
    /\ messagelist' = CachePut(messagelist, locals[t].uid, SortList(locals[t].flags))
    /\ Return(t, "ok", locals[t].uid)
    /\ UNCHANGED <<storevars, op, pre, ncalls, faults, openvars>>

\* if uid < 0: return uid
savemessage_nouid(t) ==
    /\ pc[t] = "savemessage"
    /\ locals[t].uid < 0
    /\ Return(t, "ok", locals[t].uid)
    /\ UNCHANGED <<storevars, messagelist, op, pre, ncalls, faults, openvars>>

\* if self.uidexists(uid): self.savemessageflags(uid, flags); return uid
savemessage_exists(t) ==
    /\ pc[t] = "savemessage"
    /\ ~(locals[t].uid < 0)
    /\ uidexists(locals[t].uid)
    /\ Goto(t, "savemessageflags")
    /\ UNCHANGED <<storevars, messagelist, op, pre, ncalls, faults, openvars>>

\* self.messagelist[uid] = {...}; flags.sort(); flags = ''.join(flags).
\* The dict entry holds the caller's list object, so the in-place sort
\* shows in the cache as well; the entry is written and sorted in one step.
\* The 'time' field of the entry is not modelled: nothing reads it here.
savemessage_new(t) ==
    /\ pc[t] = "savemessage"
    /\ ~(locals[t].uid < 0)
    /\ ~uidexists(locals[t].uid)
    /\ messagelist' = CachePut(messagelist, locals[t].uid, SortList(locals[t].flags))
    /\ locals' = [locals EXCEPT ![t].flags = SortList(locals[t].flags),
                                ![t].sflags = Join(SortList(locals[t].flags))]
    /\ pc' = [pc EXCEPT ![t] = "sm_insert"]
    /\ UNCHANGED <<storevars, op, result, retval, pre, ncalls, faults, openvars>>

\* INSERT INTO status (id,flags) VALUES (?,?) succeeds; commit; return uid
savemessage_insert(t) ==
    /\ pc[t] = "sm_insert"
    /\ locals[t].uid \notin StatusIds
    /\ status' = status \cup {[id |-> locals[t].uid, flags |-> locals[t].sflags]}
    /\ Return(t, "ok", locals[t].uid)
    /\ UNCHANGED <<dbfile, tables, metadata, messagelist, op, pre, ncalls, faults, openvars>>

\* an insert without the retry loop: the lock error reaches the caller
savemessage_insert_locked_raise(t) ==
    /\ pc[t] = "sm_insert"
    /\ Fault
    /\ Return(t, ErrLocked, 0)
    /\ UNCHANGED <<storevars, messagelist, op, pre, ncalls, openvars>>

\* except sqlite.OperationalError with 'database is locked': loop again
savemessage_insert_locked(t) ==
    /\ pc[t] = "sm_insert"
    /\ Fault
    /\ UNCHANGED <<storevars, messagelist, pc, locals, op, result, retval, pre,
                   ncalls, openvars>>

\* except sqlite.OperationalError with another message: raise
savemessage_insert_error(t) ==
    /\ pc[t] = "sm_insert"
    /\ Fault
    /\ Return(t, ErrFatal, 0)
    /\ UNCHANGED <<storevars, messagelist, op, pre, ncalls, openvars>>

\* the id is already a primary key of status: IntegrityError is not an
\* OperationalError and leaves the loop as an exception
savemessage_insert_integrity(t) ==
    /\ pc[t] = "sm_insert"
    /\ locals[t].uid \in StatusIds
    /\ Return(t, ErrIntegrity, 0)
    /\ UNCHANGED <<storevars, messagelist, op, pre, ncalls, faults, openvars>>

\* ------------------------------------------------------ savemessageflags
savemessageflags(t, u, f) ==
    /\ Begin(t, "savemessageflags", [NoLocals EXCEPT !.uid = u, !.flags = f],
             "savemessageflags")
    /\ UNCHANGED <<storevars, messagelist, faults, openvars>>

\* self.messagelist[uid] = {...}; flags.sort(); flags = ''.join(flags)
savemessageflags_cache(t) ==
    /\ pc[t] = "savemessageflags"
    /\ messagelist' = CachePut(messagelist, locals[t].uid, SortList(locals[t].flags))
    /\ locals' = [locals EXCEPT ![t].flags = SortList(locals[t].flags),
                                ![t].sflags = Join(SortList(locals[t].flags))]
    /\ pc' = [pc EXCEPT ![t] = "smf_update"]
    /\ UNCHANGED <<storevars, op, result, retval, pre, ncalls, faults, openvars>>

\* an INSERT where the UPDATE should be
UpdateRows_insert(rows, u, s) == rows \cup {[id |-> u, flags |-> s]}

UpdateRows(rows, u, s) ==
    {IF r.id = u THEN [r EXCEPT !.flags = s] ELSE r : r \in rows}

\* UPDATE status SET flags=? WHERE id=? succeeds (also when no row matches)
savemessageflags_update(t) ==
    /\ pc[t] = "smf_update"
    /\ status' = UpdateRows(status, locals[t].uid, locals[t].sflags)
    /\ Return(t, "ok", IF op[t] = "savemessage" THEN locals[t].uid ELSE 0)
    /\ UNCHANGED <<dbfile, tables, metadata, messagelist, op, pre, ncalls, faults, openvars>>

\* no retry loop here: "with conn:" re-raises whatever execute raised
savemessageflags_update_locked(t) ==
    /\ pc[t] = "smf_update"
    /\ Fault
    /\ Return(t, ErrLocked, 0)
    /\ UNCHANGED <<storevars, messagelist, op, pre, ncalls, openvars>>

savemessageflags_update_error(t) ==
    /\ pc[t] = "smf_update"
    /\ Fault
    /\ Return(t, ErrFatal, 0)
    /\ UNCHANGED <<storevars, messagelist, op, pre, ncalls, openvars>>

\* -------------------------------------------------------- deletemessages
deletemessages(t, l) ==
    /\ Begin(t, "deletemessages", [NoLocals EXCEPT !.uidlist = l], "deletemessages")
    /\ UNCHANGED <<storevars, messagelist, faults, openvars>>

InCache(u) == uidexists(u)
Weed(l) == SelectSeq(l, InCache)

\* uidlist = [uid for uid in uidlist if uid in self.messagelist]; empty: return
deletemessages_empty(t) ==
    /\ pc[t] = "deletemessages"
    /\ Weed(locals[t].uidlist) = <<>>
    /\ Return(t, "ok", 0)
    /\ UNCHANGED <<storevars, messagelist, op, pre, ncalls, faults, openvars>>

deletemessages_weed(t) ==
    /\ pc[t] = "deletemessages"
    /\ Weed(locals[t].uidlist) # <<>>
    /\ locals' = [locals EXCEPT ![t].uidlist = Weed(locals[t].uidlist), ![t].i = 1]
    /\ pc' = [pc EXCEPT ![t] = "dm_del"]
    /\ UNCHANGED <<storevars, messagelist, op, result, retval, pre, ncalls, faults,
                   openvars>>

\* the uid the loop "for uid in uidlist" is at
LoopUid(t) == locals[t].uidlist[locals[t].i]

\* del(self.messagelist[uid])
deletemessages_del(t) ==
    /\ pc[t] = "dm_del"
    /\ uidexists(LoopUid(t))
    /\ messagelist' = CacheDel(messagelist, LoopUid(t))
    /\ Goto(t, "dm_exec")
    /\ UNCHANGED <<storevars, op, pre, ncalls, faults, openvars>>

\* del of a key that is no longer in the dict
deletemessages_keyerror(t) ==
    /\ pc[t] = "dm_del"
    /\ ~uidexists(LoopUid(t))
    /\ Return(t, ErrKey, 0)
    /\ UNCHANGED <<storevars, messagelist, op, pre, ncalls, faults, openvars>>

\* a DELETE that lost its WHERE clause
DeleteRow_all(rows, u) == {}

\* DELETE FROM status WHERE id=:id
DeleteRow(rows, u) == {r \in rows : r.id # u}

\* DELETE FROM status WHERE id=:id succeeds; next uid, or commit and return
deletemessages_exec(t) ==
    /\ pc[t] = "dm_exec"
    /\ status' = DeleteRow(status, LoopUid(t))
    /\ IF locals[t].i = Len(locals[t].uidlist)
       THEN Return(t, "ok", 0)
       ELSE /\ locals' = [locals EXCEPT ![t].i = locals[t].i + 1]
            /\ pc' = [pc EXCEPT ![t] = "dm_del"]
            /\ UNCHANGED <<result, retval>>
    /\ UNCHANGED <<dbfile, tables, metadata, messagelist, op, pre, ncalls, faults, openvars>>

deletemessages_exec_locked(t) ==
    /\ pc[t] = "dm_exec"
    /\ Fault
    /\ Return(t, ErrLocked, 0)
    /\ UNCHANGED <<storevars, messagelist, op, pre, ncalls, openvars>>

deletemessages_exec_error(t) ==
    /\ pc[t] = "dm_exec"
    /\ Fault
    /\ Return(t, ErrFatal, 0)
    /\ UNCHANGED <<storevars, messagelist, op, pre, ncalls, openvars>>

\* ----------------------------------------------------- deletemessagelist
\* DELETE FROM status; self.messagelist is not touched
deletemessagelist(t) ==
    /\ Complete(t, "deletemessagelist", "ok", 0)
    /\ status' = {}
    /\ UNCHANGED <<dbfile, tables, metadata, messagelist, faults, openvars>>

deletemessagelist_locked(t) ==
    /\ Complete(t, "deletemessagelist", ErrLocked, 0)
    /\ Fault
    /\ UNCHANGED <<storevars, messagelist, openvars>>

deletemessagelist_error(t) ==
    /\ Complete(t, "deletemessagelist", ErrFatal, 0)
    /\ Fault
    /\ UNCHANGED <<storevars, messagelist, openvars>>

\* ------------------------------------- cachemessagelist, isnewfolder, save
cachemessagelist(t) ==
    /\ Complete(t, "cachemessagelist", "ok", 0)
    /\ messagelist' = LoadRows(status)
    /\ UNCHANGED <<storevars, faults, openvars>>

\* return self.getmessagecount() > 0   (True is 1, False is 0)
isnewfolder(t) ==
    /\ Complete(t, "isnewfolder", "ok", IF getmessagecount > 0 THEN 1 ELSE 0)
    /\ UNCHANGED <<storevars, messagelist, faults, openvars>>

save(t) ==
    /\ Complete(t, "save", "ok", 0)
    /\ UNCHANGED <<storevars, messagelist, faults, openvars>>

\* ------------------------------------------------- one caller, one folder
PosUids == {u \in UIDs : u > 0}

Step(t) ==
    \/ savemessage_exists(t)
    \/ savemessage_new(t)
    \/ savemessage_insert(t)
    \/ savemessageflags_cache(t)
    \/ savemessageflags_update(t)
    \/ deletemessages_empty(t)
    \/ deletemessages_weed(t)
    \/ deletemessages_del(t)
    \/ deletemessages_keyerror(t)
    \/ deletemessages_exec(t)

FaultStep(t) ==
    \/ savemessage_insert_locked(t)
    \/ savemessage_insert_error(t)
    \/ savemessageflags_update_locked(t)
    \/ savemessageflags_update_error(t)
    \/ deletemessages_exec_locked(t)
    \/ deletemessages_exec_error(t)
    \/ deletemessagelist_locked(t)
    \/ deletemessagelist_error(t)

Next ==
    \/ \E u \in UIDs, f \in FlagLists : savemessage(MainThread, u, f)
    \/ \E u \in PosUids, f \in FlagLists : savemessageflags(MainThread, u, f)
    \/ \E l \in UidLists : deletemessages(MainThread, l)
    \/ deletemessagelist(MainThread)
    \/ cachemessagelist(MainThread)
    \/ isnewfolder(MainThread)
    \/ save(MainThread)
    \/ savemessage_nouid(MainThread)
    \/ savemessage_insert_integrity(MainThread)
    \/ Step(MainThread)
    \/ FaultStep(MainThread)

Spec == Init /\ [][Next]_vars

\* ------------------------------------------ two threads sharing the folder
NextThreads ==
    \E t \in Threads :
        \/ \E u \in PosUids, f \in FlagLists : savemessage(t, u, f)
        \/ \E u \in CacheUids, f \in FlagLists : savemessageflags(t, u, f)
        \/ \E l \in UidListsNoDup : deletemessages(t, l)
        \/ savemessage_insert_integrity(t)
        \/ Step(t)

SpecThreads == Init /\ [][NextThreads]_vars


\* --------------------------------------------------- __init__ / create_db
\* the store file found on disk by the first construction
InitOpen ==
    /\ dbfile \in {"missing", "corrupt", "database"}
    /\ IF dbfile = "database"
       THEN /\ tables = {"metadata", "status"}
            /\ metadata = {[key |-> "db_version", value |-> "1"]}
            /\ status \in InitStores
       ELSE /\ tables = {}
            /\ metadata = {}
            /\ status = {}
    /\ messagelist = {}
    /\ pre = [t \in Threads |-> [messagelist |-> messagelist, status |-> status]]
    /\ sqliteImported \in BOOLEAN
    /\ InitCommon

\* __init__ up to sqlite.connect(self.filename); connect does not read the file
init_connect(t) ==
    /\ pc[t] = "idle"
    /\ opens < MaxOpens
    /\ sqliteImported
    /\ opens' = opens + 1
    /\ op' = [op EXCEPT ![t] = "__init__"]
    /\ result' = [result EXCEPT ![t] = "none"]
    /\ warned' = [warned EXCEPT ![t] = 0]
    /\ sawError' = [sawError EXCEPT ![t] = FALSE]
    /\ pre' = [pre EXCEPT ![t] = [messagelist |-> messagelist, status |-> status]]
    /\ pc' = [pc EXCEPT ![t] = "init_select"]
    /\ UNCHANGED <<storevars, messagelist, locals, retval, sqliteImported, ncalls, faults>>

\* except NameError: raise UserWarning(...)
init_nobindings(t) ==
    /\ pc[t] = "idle"
    /\ opens < MaxOpens
    /\ ~sqliteImported
    /\ opens' = opens + 1
    /\ op' = [op EXCEPT ![t] = "__init__"]
    /\ result' = [result EXCEPT ![t] = "UserWarning"]
    /\ UNCHANGED <<storevars, messagelist, pc, locals, retval, pre, warned, sawError,
                   sqliteImported, ncalls, faults>>

\* SELECT value from metadata WHERE key='db_version' raises no error as soon
\* as a table metadata exists; its rows are not fetched.  connection.close()
init_select(t) ==
    /\ pc[t] = "init_select"
    /\ dbfile = "database"
    /\ "metadata" \in tables
    /\ Return(t, "ok", 0)
    /\ UNCHANGED <<storevars, messagelist, op, pre, ncalls, faults, openvars>>

\* except sqlite.DatabaseError: connection.close(); self.create_db()
init_select_error(t) ==
    /\ pc[t] = "init_select"
    /\ ~(dbfile = "database" /\ "metadata" \in tables)
    /\ sawError' = [sawError EXCEPT ![t] = TRUE]
    /\ Goto(t, "create_db")
    /\ UNCHANGED <<storevars, messagelist, op, pre, warned, sqliteImported, opens,
                   ncalls, faults>>

\* self.ui.warn(...); conn, cursor = self.get_cursor()
create_db(t) ==
    /\ pc[t] = "create_db"
    /\ warned' = [warned EXCEPT ![t] = warned[t] + 1]
    /\ Goto(t, "create_metadata")
    /\ UNCHANGED <<storevars, messagelist, op, pre, sawError, sqliteImported, opens,
                   ncalls, faults>>

\* CREATE TABLE metadata (...)
create_metadata(t) ==
    /\ pc[t] = "create_metadata"
    /\ dbfile # "corrupt"
    /\ "metadata" \notin tables
    /\ dbfile' = "database"
    /\ tables' = tables \cup {"metadata"}
    /\ metadata' = {}
    /\ Goto(t, "create_version")
    /\ UNCHANGED <<status, messagelist, op, pre, ncalls, faults, openvars>>

create_metadata_notadb(t) ==
    /\ pc[t] = "create_metadata"
    /\ dbfile = "corrupt"
    /\ Return(t, ErrNotADb, 0)
    /\ UNCHANGED <<storevars, messagelist, op, pre, ncalls, faults, openvars>>

create_metadata_exists(t) ==
    /\ pc[t] = "create_metadata"
    /\ dbfile # "corrupt"
    /\ "metadata" \in tables
    /\ Return(t, ErrTableExists, 0)
    /\ UNCHANGED <<storevars, messagelist, op, pre, ncalls, faults, openvars>>

\* INSERT INTO metadata VALUES('db_version', '1')
create_version(t) ==
    /\ pc[t] = "create_version"
    /\ \A r \in metadata : r.key # "db_version"
    /\ metadata' = metadata \cup {[key |-> "db_version", value |-> "1"]}
    /\ Goto(t, "create_status")
    /\ UNCHANGED <<dbfile, tables, status, messagelist, op, pre, ncalls, faults, openvars>>

\* CREATE TABLE status (...); conn.commit(); back in __init__: connection.close()
create_status(t) ==
    /\ pc[t] = "create_status"
    /\ "status" \notin tables
    /\ tables' = tables \cup {"status"}
    /\ status' = {}
    /\ Return(t, "ok", 0)
    /\ UNCHANGED <<dbfile, metadata, messagelist, op, pre, ncalls, faults, openvars>>

InCreate(t) == pc[t] \in {"create_db", "create_metadata", "create_version", "create_status"}
InStatement(t) == pc[t] \in {"create_metadata", "create_version", "create_status"}

\* a statement of create_db raises a storage error: "with conn:" re-raises
\* it, and what the earlier statements did stays committed
create_error(t) ==
    /\ InStatement(t)
    /\ dbfile # "corrupt"
    /\ Fault
    /\ Return(t, ErrFatal, 0)
    /\ UNCHANGED <<storevars, messagelist, op, pre, ncalls, openvars>>

\* the process dies while a construction is under way
crash ==
    /\ \E t \in Threads : pc[t] # "idle"
    /\ Fault
    /\ pc' = [t \in Threads |-> "idle"]
    /\ locals' = [t \in Threads |-> NoLocals]
    /\ result' = [t \in Threads |-> IF pc[t] # "idle" THEN "crashed" ELSE result[t]]
    /\ UNCHANGED <<storevars, messagelist, op, retval, pre, ncalls, openvars>>

NextOpen ==
    \/ \E t \in Threads :
        \/ init_connect(t)
        \/ init_nobindings(t)
        \/ init_select(t)
        \/ init_select_error(t)
        \/ create_db(t)
        \/ create_metadata(t)
        \/ create_metadata_notadb(t)
        \/ create_metadata_exists(t)
        \/ create_version(t)
        \/ create_status(t)
        \/ create_error(t)
    \/ crash

SpecOpen == InitOpen /\ [][NextOpen]_vars


\* ------------------- save / flag / delete calls only, storage never failing
NextSave ==
    \/ \E u \in UIDs, f \in FlagLists : savemessage(MainThread, u, f)
    \/ \E u \in PosUids, f \in FlagLists : savemessageflags(MainThread, u, f)
    \/ \E l \in UidLists : deletemessages(MainThread, l)
    \/ savemessage_nouid(MainThread)
    \/ Step(MainThread)

SpecSave == Init /\ [][NextSave]_vars

\* ----------------------------------- savemessage against a store that locks
NextRetry ==
    \/ \E u \in UIDs, f \in FlagLists : savemessage(MainThread, u, f)
    \/ savemessage_nouid(MainThread)
    \/ savemessage_exists(MainThread)
    \/ savemessage_new(MainThread)
    \/ savemessage_insert(MainThread)
    \/ savemessage_insert_locked(MainThread)
    \/ savemessage_insert_error(MainThread)
    \/ savemessageflags_cache(MainThread)
    \/ savemessageflags_update(MainThread)

\* the lock is released in the end: an INSERT that the "while True" loop
\* keeps attempting is not refused for ever
SpecRetry == Init /\ [][NextRetry]_vars /\ WF_vars(savemessage_insert(MainThread))

\* ------------------------------------------------ crash after a completed call
\* The process dies right after a mutating call returned; the folder is
\* constructed again (__init__ finds table metadata and creates nothing) and
\* cachemessagelist() loads the rows that are in the file.
crash_reopen(t) ==
    /\ op[t] \in {"savemessage", "savemessageflags", "deletemessages"}
    /\ result[t] = "ok"
    /\ Complete(t, "crash_reopen", "ok", 0)
    /\ dbfile = "database" /\ "metadata" \in tables
    /\ messagelist' = LoadRows(status)
    /\ UNCHANGED <<storevars, faults, openvars>>

NextDurable ==
    \/ NextSave
    \/ save(MainThread)
    \/ crash_reopen(MainThread)

SpecDurable == Init /\ [][NextDurable]_vars

\* --------------------------------------------- the flag codec on its own
\* a flag list about to be stored by savemessage / savemessageflags
InitCodec ==
    /\ dbfile = "database"
    /\ tables = {"metadata", "status"}
    /\ metadata = {[key |-> "db_version", value |-> "1"]}
    /\ status = {}
    /\ messagelist = {}
    /\ pre = [t \in Threads |-> [messagelist |-> {}, status |-> {}]]
    /\ sqliteImported = TRUE
    /\ pc = [t \in Threads |-> IF t = MainThread THEN "encode" ELSE "idle"]
    /\ \E f \in AllFlagLists :
         locals = [t \in Threads |-> IF t = MainThread
                                     THEN [NoLocals EXCEPT !.uid = 1, !.flags = f]
                                     ELSE NoLocals]
    /\ op = [t \in Threads |-> "none"]
    /\ result = [t \in Threads |-> "none"]
    /\ retval = [t \in Threads |-> 0]
    /\ warned = [t \in Threads |-> 0]
    /\ sawError = [t \in Threads |-> FALSE]
    /\ ncalls = 0
    /\ faults = 0
    /\ opens = 0

\* flags.sort(); flags = ''.join(flags); the string becomes the row of uid
codec_encode(t) ==
    /\ pc[t] = "encode"
    /\ locals' = [locals EXCEPT ![t].sflags = Join(SortList(locals[t].flags))]
    /\ status' = {[id |-> locals[t].uid, flags |-> Join(SortList(locals[t].flags))]}
    /\ pc' = [pc EXCEPT ![t] = "decode"]
    /\ UNCHANGED <<dbfile, tables, metadata, messagelist, op, result, retval, pre,
                   ncalls, faults, openvars>>

\* for row in cursor: flags = [x for x in row[1]]; self.messagelist[row[0]] = ...
codec_decode(t) ==
    /\ pc[t] = "decode"
    /\ messagelist' = LoadRows(status)
    /\ pc' = [pc EXCEPT ![t] = "decoded"]
    /\ UNCHANGED <<storevars, locals, op, result, retval, pre, ncalls, faults, openvars>>

NextCodec == codec_encode(MainThread) \/ codec_decode(MainThread)

SpecCodec == InitCodec /\ [][NextCodec]_vars

\* ================================================================ claims
FlagSet(f) == {f[i] : i \in 1..Len(f)}
View(ml) == {[uid |-> m.uid, flags |-> FlagSet(m.flags)] : m \in ml}
\* identifiers and per-identifier flag sets of the cache equal those of a reload
CacheAgrees == View(messagelist) = View(LoadRows(status))
PreAgreed(t) == View(pre[t].messagelist) = View(LoadRows(pre[t].status))
Mutators == {"savemessage", "savemessageflags", "deletemessages"}
Returned(t) == pc[t] = "idle" /\ result[t] # "none"
AllIdle == \A t \in Threads : pc[t] = "idle"

\* C1: after every completed savemessage, savemessageflags or deletemessages
\* call of a sequence that started from a freshly loaded cache, the
\* identifiers and flag sets of messagelist equal those a reload would give.
C1_CacheEqualsReload ==
    \A t \in Threads :
        (Returned(t) /\ op[t] \in Mutators /\ result[t] = "ok") => CacheAgrees

\* C2: when the persistence step of a mutating call fails with a
\* non-transient storage error, the error reaches the caller and the
\* messagelist is left equal to the store (the cache write is rolled back).
C2_RollbackOnFatal ==
    \A t \in Threads :
        (Returned(t) /\ op[t] \in Mutators /\ result[t] = ErrFatal /\ PreAgreed(t))
            => CacheAgrees

\* C3: deletemessages is all-or-nothing in the store: when one of its DELETE
\* statements fails, the status table is what it was when the call began.
C3_DeleteAllOrNothing ==
    \A t \in Threads :
        (Returned(t) /\ op[t] = "deletemessages" /\ result[t] \in {ErrFatal, ErrLocked})
            => status = pre[t].status

\* C4: 'database is locked' is retried inside every write operation and is
\* never raised to the caller.
C4_LockedNeverRaised ==
    \A t \in Threads : result[t] # ErrLocked

\* C5: two threads sharing the folder: no call ends in an error (a single
\* thread raises none for these calls), and once all calls have returned the
\* messagelist equals the contents of the status table.
C5_ThreadsConsistent ==
    /\ \A t \in Threads : result[t] \notin Errors
    /\ AllIdle => CacheAgrees

\* C6: check-then-create is single-flight: two constructions of the same
\* store are never both inside create_db.
C6_SingleFlightCreate ==
    \A t1 \in Threads, t2 \in Threads :
        t1 # t2 => ~(InCreate(t1) /\ InCreate(t2))

\* C7: whenever no create_db is running (it returned, failed or the process
\* crashed), the store holds the full schema or no table at all.
C7_CreateAtomic ==
    (\A t \in Threads : ~InCreate(t)) => (SchemaFull \/ tables = {})

\* C8: a construction on a missing or unreadable store ends with the full
\* schema, no status row and exactly one ui.warn; a construction on a valid
\* store warns zero times and changes no row.  (One construction, storage
\* raising no error of its own.)
C8_OpenFreshOrValid ==
    \A t \in Threads :
        (op[t] = "__init__" /\ pc[t] = "idle" /\ opens = 1 /\ faults = 0)
            => IF sawError[t]
               THEN result[t] = "ok" /\ SchemaFull /\ status = {} /\ warned[t] = 1
               ELSE result[t] \in {"ok", "UserWarning"} /\ warned[t] = 0
                    /\ status = pre[t].status

\* C9: a construction that accepts the store as it is (no create_db) found a
\* db_version entry with the recognized value '1'.
C9_VersionChecked ==
    \A t \in Threads :
        (op[t] = "__init__" /\ pc[t] = "idle" /\ result[t] = "ok" /\ ~sawError[t])
            => [key |-> "db_version", value |-> "1"] \in metadata

\* C10: isnewfolder() returns true exactly when the message count is 0.
C10_IsNewIffEmpty ==
    \A t \in Threads :
        (op[t] = "isnewfolder" /\ Returned(t))
            => ((retval[t] = 1) <=> (getmessagecount = 0))


PreCacheUids(t) == {m.uid : m \in pre[t].messagelist}
PreStatusIds(t) == {r.id : r \in pre[t].status}
RowFlagSet(r) == {<<r.flags[i]>> : i \in 1..Len(r.flags)}
Listed(t) == {locals[t].uidlist[j] : j \in 1..Len(locals[t].uidlist)}

\* C11: savemessage with a negative uid returns that uid and leaves the
\* messagelist and the status table as they were.
C11_NegativeUidNoop ==
    [][\A t \in Threads :
        (pc[t] = "savemessage" /\ locals[t].uid < 0)
            => /\ pc'[t] = "idle"
               /\ result'[t] = "ok"
               /\ retval'[t] = locals[t].uid
               /\ messagelist' = messagelist
               /\ status' = status]_vars

C11_Witness ==
    \E t \in Threads :
        /\ Returned(t) /\ op[t] = "savemessage" /\ result[t] = "ok"
        /\ retval[t] < 0
        /\ messagelist # {}

\* C12: a savemessage for an identifier saved before (in the cache and in
\* the table when the call begins) ends, when it returns, with exactly one
\* row and one cache record for it, both carrying the flags of this call,
\* and it got there by the UPDATE, not by a second INSERT.
C12_SecondSaveUpdates ==
    [][\A t \in Threads :
        (/\ op[t] = "savemessage"
         /\ pc[t] \in {"sm_insert", "smf_update"}
         /\ pc'[t] = "idle" /\ result'[t] = "ok"
         /\ locals[t].uid \in PreCacheUids(t)
         /\ locals[t].uid \in PreStatusIds(t))
            => /\ pc[t] = "smf_update"
               /\ retval'[t] = locals[t].uid
               /\ Cardinality({r \in status' : r.id = locals[t].uid}) = 1
               /\ \A r \in status' :
                    r.id = locals[t].uid => RowFlagSet(r) = FlagSet(locals[t].flags)
               /\ Cardinality({m \in messagelist' : m.uid = locals[t].uid}) = 1
               /\ \A m \in messagelist' :
                    m.uid = locals[t].uid => FlagSet(m.flags) = FlagSet(locals[t].flags)]_vars

C12_Witness ==
    \E t \in Threads :
        /\ Returned(t) /\ op[t] = "savemessage" /\ result[t] = "ok"
        /\ retval[t] \in PreCacheUids(t)
        /\ \E r \in pre[t].status, r2 \in status :
            r.id = retval[t] /\ r2.id = retval[t] /\ r2.flags # r.flags

\* C13: deletemessages returns at once, changing nothing, when no listed
\* identifier is in the cache; it executes a DELETE only for identifiers that
\* were in the cache; and when it returns it has removed from cache and table
\* exactly the listed identifiers that were in the cache, so the count has
\* dropped by their number.
C13_DeleteExactlyPresent ==
    [][\A t \in Threads :
        /\ (pc[t] = "deletemessages" /\ Listed(t) \cap CacheUids = {})
            => /\ pc'[t] = "idle" /\ result'[t] = "ok"
               /\ messagelist' = messagelist
               /\ status' = status
        /\ pc[t] = "dm_exec" => LoopUid(t) \in PreCacheUids(t)
        /\ (pc[t] = "dm_exec" /\ pc'[t] = "idle" /\ result'[t] = "ok")
            => /\ messagelist' = {m \in pre[t].messagelist : m.uid \notin Listed(t)}
               /\ status' = {r \in pre[t].status : r.id \notin Listed(t)}
               /\ Cardinality(messagelist')
                    = Cardinality(pre[t].messagelist) - Cardinality(Listed(t))]_vars

C13_Witness ==
    \E t \in Threads :
        /\ Returned(t) /\ op[t] = "deletemessages" /\ result[t] = "ok"
        /\ Cardinality(messagelist) < Cardinality(pre[t].messagelist)
        /\ status # {}


\* C14: save() changes neither the cache nor the store, and a crash right
\* after a completed savemessage, savemessageflags or deletemessages,
\* followed by reopen and load, yields the records the folder held before
\* the crash.
C14_WriteThroughDurable ==
    \A t \in Threads :
        /\ (Returned(t) /\ op[t] = "save")
            => (messagelist = pre[t].messagelist /\ status = pre[t].status)
        /\ (Returned(t) /\ op[t] = "crash_reopen")
            => (View(messagelist) = View(pre[t].messagelist) /\ status = pre[t].status)


\* C15: a list F of one-character flags that is sorted, joined and stored,
\* then read back and split, comes back as a collection set-equal to F.
C15_FlagRoundTrip ==
    \A t \in Threads :
        pc[t] = "decoded"
            => /\ CacheUids = {locals[t].uid}
               /\ \A m \in messagelist : FlagSet(m.flags) = FlagSet(locals[t].flags)

C15_Witness ==
    \E t \in Threads :
        /\ pc[t] = "decoded"
        /\ Len(locals[t].flags) = 3
        /\ Cardinality(FlagSet(locals[t].flags)) = 2
        /\ locals[t].flags # SortList(locals[t].flags)


\* C16: the flags string of every row of the status table has its symbols in
\* ascending codepoint order with no symbol repeated.
C16_StoredFlagsCanonical ==
    \A r \in status :
        \A i \in 1..(Len(r.flags) - 1) : r.flags[i] < r.flags[i + 1]

\* C18: after deletemessagelist() completes the status table has no rows and
\* the messagelist is empty too.
C18_DeleteAllClearsBoth ==
    \A t \in Threads :
        (Returned(t) /\ op[t] = "deletemessagelist" /\ result[t] = "ok")
            => (status = {} /\ messagelist = {})

\* C19: a completed savemessageflags leaves the set of identifiers of the
\* messagelist and of the status table as it was when the call began, and
\* leaves the records of every other identifier unchanged.
C19_FlagsKeepsIdentifiers ==
    \A t \in Threads :
        (Returned(t) /\ op[t] = "savemessageflags" /\ result[t] = "ok")
            => /\ CacheUids = PreCacheUids(t)
               /\ StatusIds = PreStatusIds(t)
               /\ Cardinality(messagelist \ pre[t].messagelist) <= 1
               /\ Cardinality(status \ pre[t].status) <= 1

\* C20: deletemessages returns without raising for every list of
\* identifiers, a list naming a present identifier twice included.
C20_DeleteNeverRaises ==
    \A t \in Threads :
        (Returned(t) /\ op[t] = "deletemessages") => result[t] = "ok"


\* C17: an INSERT of savemessage that meets 'database is locked' is tried
\* again with nothing changed, any other storage error is raised at once and
\* the lock error itself is never raised; with the lock released in the end
\* savemessage returns; and when it returns normally for a new uid the table
\* holds exactly one row for it, a row that was not there before the call.
C17_InsertRetries ==
    /\ [][\A t \in Threads :
            pc[t] = "sm_insert"
                => \/ /\ pc'[t] = "sm_insert"
                      /\ locals'[t] = locals[t]
                      /\ status' = status /\ messagelist' = messagelist
                      /\ result'[t] = "none"
                   \/ /\ pc'[t] = "idle"
                      /\ result'[t] = ErrFatal
                      /\ status' = status
                   \/ /\ pc'[t] = "idle"
                      /\ result'[t] = "ok"
                      /\ retval'[t] = locals[t].uid
                      /\ status' = status \cup {[id |-> locals[t].uid,
                                                 flags |-> locals[t].sflags]}]_vars
    /\ [](\A t \in Threads :
            (/\ Returned(t) /\ op[t] = "savemessage" /\ result[t] = "ok"
             /\ retval[t] > 0 /\ retval[t] \notin PreCacheUids(t))
                => /\ Cardinality({r \in status : r.id = retval[t]}) = 1
                   /\ retval[t] \notin PreStatusIds(t))
    /\ \A t \in Threads : (pc[t] = "sm_insert") ~> (pc[t] = "idle")

C17_Witness ==
    \E t \in Threads :
        /\ Returned(t) /\ op[t] = "savemessage" /\ result[t] = "ok"
        /\ ncalls = 1 /\ faults >= 2
        /\ retval[t] \in StatusIds

====
